---- MODULE Spec2Model ----
(***************************************************************************)
(* Model of the Dot Update webhook (src/app.py): the /update handler, the   *)
(* two record-store helpers, strip_markdown_json and                        *)
(* get_working_days_from_today.                                             *)
(*                                                                          *)
(* Text is a sequence of characters, each a string.  In the handler a reply *)
(* may also hold the tokens "OBJ" (the serialisation of a JSON object),     *)
(* "ARR" (the serialisation of a JSON array) and "x" (text that is not      *)
(* JSON).  A JSON value is a record [t, v, n]: its type, its text and, for  *)
(* an ISO date string, the ordinal of the date.  A dict is a function from  *)
(* the keys it holds.  Python's None is JNull.                              *)
(***************************************************************************)
EXTENDS Integers, Sequences, FiniteSets, TLC

VARIABLES
    AIRTABLE_API_KEY,  \* TRUE iff the credential is set in the environment
    record,            \* fields of the one project record in the store
    patchLog,          \* requests whose PATCH the store applied, in order
    req,               \* per request: position and locals of update()
    reply_text,        \* strip_markdown_json: argument
    stripped,          \* strip_markdown_json: result
    strip_pc,          \* strip_markdown_json: "call" | "returned"
    today,             \* get_working_days_from_today: date.today()
    current,           \* get_working_days_from_today: current
    added,             \* get_working_days_from_today: added
    days_pc            \* get_working_days_from_today: "loop" | "returned"

vars == <<AIRTABLE_API_KEY, record, patchLog, req, reply_text, stripped,
          strip_pc, today, current, added, days_pc>>

handlerVars == <<AIRTABLE_API_KEY, record, patchLog, req>>
stripVars == <<reply_text, stripped, strip_pc>>
daysVars == <<today, current, added, days_pc>>

\* ---------------------------------------------------------------- bounds
MaxLen == 8
MaxToday == 21

\* ----------------------------------------------------------- JSON values
JStr(s) == [t |-> "str", v |-> s, n |-> 0]
JNum(s) == [t |-> "num", v |-> s, n |-> 0]
JNull == [t |-> "null", v |-> "", n |-> 0]
JTrue == [t |-> "bool", v |-> "true", n |-> 0]
JFalse == [t |-> "bool", v |-> "false", n |-> 0]
\* date.isoformat(): the ISO string of the date with ordinal d
JDate(d) == [t |-> "str", v |-> "isodate", n |-> d]
\* datetime.now().isoformat()
JNow == [t |-> "str", v |-> "timestamp", n |-> 0]

\* Python truth value of a JSON value
Truthy(x) ==
    CASE x.t = "str" -> x.v # ""
      [] x.t = "num" -> x.v # "0"
      [] x.t = "bool" -> x.v = "true"
      [] OTHER -> FALSE

EmptyDict == [k \in {} |-> JNull]

\* dict.get(k, default)
Get(d, k, default) == IF k \in DOMAIN d THEN d[k] ELSE default

\* str.title() on the stage and status strings of the model
Title(s) ==
    CASE s = "in progress" -> "In Progress"
      [] s = "on hold" -> "On Hold"
      [] s = "live" -> "Live"
      [] s = "done" -> "Done"
      [] OTHER -> s

\* ------------------------------------------------------------------ text
\* the backtick character (written out: the parser rejects it in a string)
Backtick == "BACKTICK"

Fence == <<Backtick, Backtick, Backtick>>

IsSpace(c) == c \in {" ", "\n"}

RECURSIVE LStrip(_)
LStrip(s) ==
    IF s = <<>> THEN s
    ELSE IF IsSpace(Head(s)) THEN LStrip(Tail(s)) ELSE s

RECURSIVE RStrip(_)
RStrip(s) ==
    IF s = <<>> THEN s
    ELSE IF IsSpace(s[Len(s)]) THEN RStrip(SubSeq(s, 1, Len(s) - 1)) ELSE s

\* str.strip()
Strip(s) == RStrip(LStrip(s))

StartsWith(s, p) == Len(s) >= Len(p) /\ SubSeq(s, 1, Len(p)) = p

EndsWith(s, p) == Len(s) >= Len(p) /\ SubSeq(s, Len(s) - Len(p) + 1, Len(s)) = p

HasNewline(s) == \E i \in 1..Len(s) : s[i] = "\n"

\* content.split(newline, 1)[1]: what follows the first newline
AfterFirstNewline(s) ==
    LET i == CHOOSE k \in 1..Len(s) :
                 s[k] = "\n" /\ \A j \in 1..(k - 1) : s[j] # "\n"
    IN SubSeq(s, i + 1, Len(s))

\* content.rsplit(sep, 1)[0]: what precedes the last occurrence of sep
RSplitHead(s, sep) ==
    LET at == {i \in 1..(Len(s) - Len(sep) + 1) :
                   SubSeq(s, i, i + Len(sep) - 1) = sep}
    IN IF at = {} THEN s
       ELSE SubSeq(s, 1, (CHOOSE i \in at : \A j \in at : j <= i) - 1)

strip_markdown_json(text) ==
    LET c0 == Strip(text)
        c1 == IF StartsWith(c0, Fence)
              THEN IF HasNewline(c0) THEN AfterFirstNewline(c0)
                   ELSE SubSeq(c0, 4, Len(c0))
              ELSE c0
        c2 == IF EndsWith(c1, Fence) THEN RSplitHead(c1, Fence) ELSE c1
    IN Strip(c2)

\* ------------------------------------------------------------------ dates
Days == 5

\* date.weekday(): Monday is 0; ordinal 1 (0001-01-01) is a Monday
Weekday(d) == (d + 6) % 7

\* Saturday counted as a working day
IsWorkingDayThroughSaturday(d) == Weekday(d) <= 5

IsWorkingDay(d) == Weekday(d) < 5

\* the loop of get_working_days_from_today from (cur, cnt) to its result
RECURSIVE WorkingDaysLoop(_, _, _)
WorkingDaysLoop(cur, cnt, days) ==
    IF cnt < days
    THEN WorkingDaysLoop(cur + 1, IF IsWorkingDay(cur + 1) THEN cnt + 1 ELSE cnt, days)
    ELSE cur

get_working_days_from_today(day, days) == WorkingDaysLoop(day, 0, days)

\* ---------------------------------------------------------- record store
Requests == {"r1", "r2"}

FieldNames == {"Project Name", "Stage", "Status", "Status Changed",
               "With Client?", "Update", "Update due"}

\* the one record of the Projects table, job number J1, before any request
InitialRecord ==
    ("Project Name" :> JStr("Acme")) @@ ("Stage" :> JStr("Briefing")) @@
    ("Status" :> JStr("In Progress")) @@ ("Update" :> JStr("old note")) @@
    ("Update due" :> JDate(1))

RecordId == "rec1"

\* the records the filterByFormula query {Job Number}='<job_number>' matches
MatchingRecords(job_number, fields) ==
    IF job_number = JStr("J1")
    THEN <<[id |-> RecordId, fields |-> fields]>>
    ELSE <<>>

\* the records of the table whatever the job number
AllRecords(job_number, fields) == <<[id |-> RecordId, fields |-> fields]>>

\* the store replaces the whole field map (PUT) instead of merging (PATCH)
ApplyPut(fields, updates) == updates

\* httpx.patch: the store merges the given field map into the record
ApplyPatch(fields, updates) ==
    [f \in (DOMAIN fields) \cup (DOMAIN updates) |->
        IF f \in DOMAIN updates THEN updates[f] ELSE fields[f]]

None == [id |-> "", fields |-> EmptyDict]

\* the lookup without its filter: the first record of the table
get_project_unfiltered(api_key, job_number, outcome, fields) ==
    IF ~api_key THEN None
    ELSE IF outcome \in {"network_error", "http_error"} THEN None
    ELSE LET records == AllRecords(job_number, fields)
         IN IF outcome = "malformed" THEN None
            ELSE [id |-> records[1].id, fields |-> records[1].fields]

\* (record id, fields), or None for (None, None); outcome is what the GET does
get_project_by_job_number(api_key, job_number, outcome, fields) ==
    IF ~api_key THEN None
    ELSE IF outcome \in {"network_error", "http_error"} THEN None
    ELSE LET records == MatchingRecords(job_number, fields)
         IN IF records = <<>> THEN None
            ELSE IF outcome = "malformed" THEN None
            ELSE [id |-> records[1].id, fields |-> records[1].fields]

\* the patch with one retry after a failed call
update_project_retrying(api_key, record_id, outcome) ==
    IF ~api_key \/ record_id = ""
    THEN [success |-> FALSE, calls |-> 0, applied |-> FALSE]
    ELSE IF outcome = "ok"
    THEN [success |-> TRUE, calls |-> 1, applied |-> TRUE]
    ELSE [success |-> FALSE, calls |-> 2, applied |-> FALSE]

\* success flag, number of PATCH calls issued, whether the store applied one
update_project_in_airtable(api_key, record_id, outcome) ==
    IF ~api_key \/ record_id = ""
    THEN [success |-> FALSE, calls |-> 0, applied |-> FALSE]
    ELSE IF outcome = "ok"
    THEN [success |-> TRUE, calls |-> 1, applied |-> TRUE]
    ELSE [success |-> FALSE, calls |-> 1, applied |-> FALSE]

\* ------------------------------------------------------------- the handler
\* json.loads(content): the token OBJ is the serialisation of the object doc
json_loads(content, doc) ==
    IF content = <<"OBJ">> THEN [ok |-> TRUE, isdict |-> TRUE, value |-> doc]
    ELSE IF content = <<"ARR">> THEN [ok |-> TRUE, isdict |-> FALSE, value |-> EmptyDict]
    ELSE [ok |-> FALSE, isdict |-> FALSE, value |-> EmptyDict]

\* analysis.get('updateDue') or get_working_days_from_today(5)
UpdateDue(analysis, day) ==
    IF Truthy(Get(analysis, "updateDue", JNull))
    THEN analysis["updateDue"]
    ELSE JDate(get_working_days_from_today(day, Days))

\* .title() raises AttributeError on a truthy stage or status that is no string
TitleRaises(analysis) ==
    \E k \in {"stage", "status"} :
        Truthy(Get(analysis, k, JNull)) /\ Get(analysis, k, JNull).t # "str"

UpdateValue(analysis, update_due, f) ==
    CASE f = "Stage" -> JStr(Title(analysis["stage"].v))
      [] f = "Status" -> JStr(Title(analysis["status"].v))
      [] f = "Status Changed" -> JNow
      [] f = "With Client?" -> analysis["withClient"]
      [] f = "Update" -> analysis["updateSummary"]
      [] f = "Update due" -> update_due

\* the payload with a field for every key the analysis holds, empty or not
BuildUpdatesKeyPresent(analysis, update_due) ==
    LET keys ==
            (IF "stage" \in DOMAIN analysis /\ analysis["stage"].t = "str"
             THEN {"Stage"} ELSE {})
            \cup (IF Truthy(Get(analysis, "status", JNull))
                  THEN {"Status", "Status Changed"} ELSE {})
            \cup (IF Get(analysis, "withClient", JNull) # JNull
                  THEN {"With Client?"} ELSE {})
            \cup (IF Truthy(Get(analysis, "updateSummary", JNull))
                  THEN {"Update", "Update due"} ELSE {})
    IN [f \in keys |-> UpdateValue(analysis, update_due, f)]

\* the payload that always carries the due date
BuildUpdatesAlwaysDue(analysis, update_due) ==
    LET keys ==
            (IF Truthy(Get(analysis, "stage", JNull)) THEN {"Stage"} ELSE {})
            \cup (IF Truthy(Get(analysis, "status", JNull))
                  THEN {"Status", "Status Changed"} ELSE {})
            \cup (IF Get(analysis, "withClient", JNull) # JNull
                  THEN {"With Client?"} ELSE {})
            \cup (IF Truthy(Get(analysis, "updateSummary", JNull))
                  THEN {"Update"} ELSE {})
            \cup {"Update due"}
    IN [f \in keys |-> UpdateValue(analysis, update_due, f)]

\* airtable_updates as update() builds it
BuildUpdates(analysis, update_due) ==
    LET keys ==
            (IF Truthy(Get(analysis, "stage", JNull)) THEN {"Stage"} ELSE {})
            \cup (IF Truthy(Get(analysis, "status", JNull))
                  THEN {"Status", "Status Changed"} ELSE {})
            \cup (IF Get(analysis, "withClient", JNull) # JNull
                  THEN {"With Client?"} ELSE {})
            \cup (IF Truthy(Get(analysis, "updateSummary", JNull))
                  THEN {"Update", "Update due"} ELSE {})
    IN [f \in keys |-> UpdateValue(analysis, update_due, f)]

NoResponse ==
    [status |-> 0, error |-> "", keys |-> {}, jobNumber |-> JNull,
     raw_response |-> <<>>, airtableUpdated |-> FALSE, fieldsUpdated |-> {},
     updateDue |-> JNull]

ErrorResponse(status, error) ==
    [NoResponse EXCEPT !.status = status, !.error = error,
                       !.keys = IF status = 500 THEN {"error", "details"} ELSE {"error"}]

NotFoundResponse(job_number) ==
    [NoResponse EXCEPT !.status = 404, !.error = "Job not found",
                       !.keys = {"error", "jobNumber"}, !.jobNumber = job_number]

InvalidJsonResponse(content) ==
    [NoResponse EXCEPT !.status = 500, !.error = "Claude returned invalid JSON",
                       !.keys = {"error", "details", "raw_response"},
                       !.raw_response = content]

OkKeys == {"jobNumber", "projectName", "previousStage", "previousStatus",
           "newStage", "newStatus", "withClient", "updateSummary", "updateDue",
           "hasBlocker", "blockerNote", "confidence", "confidenceNote",
           "teamsMessage", "airtableUpdated", "fieldsUpdated"}

OkResponse(job_number, update_due, update_success, airtable_updates) ==
    [NoResponse EXCEPT !.status = 200, !.keys = OkKeys, !.jobNumber = job_number,
                       !.updateDue = update_due,
                       !.airtableUpdated = update_success,
                       !.fieldsUpdated = DOMAIN airtable_updates]

NewRequest ==
    [pc |-> "idle", isdict |-> TRUE, data |-> EmptyDict,
     email_content |-> JNull, job_number |-> JNull,
     lookup |-> "none", project_record_id |-> "", current_data |-> EmptyDict,
     replied |-> FALSE, reply |-> <<>>, content |-> <<>>, analysis |-> EmptyDict,
     update_due |-> JNull, airtable_updates |-> EmptyDict,
     patch_outcome |-> "none", patch_calls |-> 0, update_success |-> FALSE,
     response |-> NoResponse]

Finish(r, resp) == req' = [req EXCEPT ![r].pc = "done", ![r].response = resp]

\* lines 114-123: read the body and validate it
Receive(r, bodies) ==
    /\ req[r].pc = "idle"
    /\ \E body \in bodies :
       LET email_content == Get(body.data, "emailContent", JStr(""))
           job_number == Get(body.data, "jobNumber", JStr(""))
           seen == [req[r] EXCEPT !.isdict = body.isdict, !.data = body.data]
       IN IF ~body.isdict
          THEN req' = [req EXCEPT ![r] = [seen EXCEPT !.pc = "done",
                           !.response = ErrorResponse(500, "Internal server error")]]
          ELSE IF ~Truthy(email_content)
          THEN req' = [req EXCEPT ![r] = [seen EXCEPT !.pc = "done",
                           !.response = ErrorResponse(400, "No email content provided")]]
          ELSE IF ~Truthy(job_number)
          THEN req' = [req EXCEPT ![r] = [seen EXCEPT !.pc = "done",
                           !.response = ErrorResponse(400, "No job number provided")]]
          ELSE req' = [req EXCEPT ![r] = [seen EXCEPT !.pc = "validated",
                           !.email_content = email_content,
                           !.job_number = job_number]]
    /\ UNCHANGED <<AIRTABLE_API_KEY, record, patchLog, stripVars, daysVars>>

\* lines 125-132: look the record up
Fetch(r, outcomes) ==
    /\ req[r].pc = "validated"
    /\ \E outcome \in outcomes :
       LET found == get_project_by_job_number(AIRTABLE_API_KEY, req[r].job_number,
                                              outcome, record)
           seen == [req[r] EXCEPT !.lookup = IF AIRTABLE_API_KEY THEN outcome
                                             ELSE "no_credential"]
       IN IF found.id = ""
          THEN req' = [req EXCEPT ![r] = [seen EXCEPT !.pc = "done",
                           !.response = NotFoundResponse(req[r].job_number)]]
          ELSE req' = [req EXCEPT ![r] = [seen EXCEPT !.pc = "fetched",
                           !.project_record_id = found.id,
                           !.current_data = found.fields]]
    /\ UNCHANGED <<AIRTABLE_API_KEY, record, patchLog, stripVars, daysVars>>

\* lines 134-179: call the model, parse its reply, build the payload
InvokeModel(r, apis, texts, docs, days) ==
    /\ req[r].pc = "fetched"
    /\ \E api_ok \in apis, text \in texts, doc \in docs, day \in days :
       IF ~api_ok
       THEN Finish(r, ErrorResponse(500, "Internal server error"))
       ELSE LET content == strip_markdown_json(text)
                parsed == json_loads(content, doc)
                seen == [req[r] EXCEPT !.replied = TRUE, !.reply = text,
                                       !.content = content]
            IN IF ~parsed.ok
               THEN req' = [req EXCEPT ![r] = [seen EXCEPT !.pc = "done",
                                !.response = InvalidJsonResponse(content)]]
               ELSE IF ~parsed.isdict \/ TitleRaises(parsed.value)
               THEN req' = [req EXCEPT ![r] = [seen EXCEPT !.pc = "done",
                                !.analysis = parsed.value,
                                !.response = ErrorResponse(500, "Internal server error")]]
               ELSE LET analysis == parsed.value
                        update_due == UpdateDue(analysis, day)
                    IN req' = [req EXCEPT ![r] = [seen EXCEPT !.pc = "computed",
                                !.analysis = analysis,
                                !.update_due = update_due,
                                !.airtable_updates = BuildUpdates(analysis, update_due)]]
    /\ UNCHANGED <<AIRTABLE_API_KEY, record, patchLog, stripVars, daysVars>>

\* lines 181-204: patch the record when the payload is not empty, and respond
Patch(r, outcomes) ==
    /\ req[r].pc = "computed"
    /\ \E outcome \in outcomes :
       LET updates == req[r].airtable_updates
           res == IF DOMAIN updates # {}
                  THEN update_project_in_airtable(AIRTABLE_API_KEY,
                                                  req[r].project_record_id, outcome)
                  ELSE [success |-> FALSE, calls |-> 0, applied |-> FALSE]
       IN /\ record' = IF res.applied THEN ApplyPatch(record, updates) ELSE record
          /\ patchLog' = IF res.applied THEN Append(patchLog, r) ELSE patchLog
          /\ req' = [req EXCEPT ![r].pc = "done",
                                ![r].patch_outcome = IF DOMAIN updates # {}
                                                     THEN outcome ELSE "none",
                                ![r].patch_calls = res.calls,
                                ![r].update_success = res.success,
                                ![r].response = OkResponse(req[r].job_number,
                                    req[r].update_due, res.success, updates)]
    /\ UNCHANGED <<AIRTABLE_API_KEY, stripVars, daysVars>>

\* ------------------------------------------------------------------ inputs
Absent == [t |-> "absent", v |-> "", n |-> 0]

\* the dict holding the keys of val that are not Absent
MkDict(val) == [k \in {k \in DOMAIN val : val[k] # Absent} |-> val[k]]

EmailValues == {Absent, JNull, JStr(""), JStr("email"), JNum("7")}

JobValues == {Absent, JNull, JStr(""), JStr("J1"), JStr("J9"), JNum("7")}

\* request bodies: a JSON value that is no object, or an object
Bodies ==
    {[isdict |-> FALSE, data |-> EmptyDict]}
    \cup {[isdict |-> TRUE, data |-> MkDict(("emailContent" :> e) @@ ("jobNumber" :> j))] :
             e \in EmailValues, j \in JobValues}

FetchOutcomes == {"ok", "network_error", "http_error", "malformed"}

PatchOutcomes == {"ok", "network_error", "http_error"}

\* the analysis objects the model may return
Docs ==
    {MkDict(("stage" :> st) @@ ("status" :> su) @@ ("withClient" :> wc) @@
            ("updateSummary" :> us) @@ ("updateDue" :> ud)) :
        st \in {Absent, JStr(""), JStr("in progress"), JNum("7")},
        su \in {Absent, JStr(""), JStr("done")},
        wc \in {Absent, JNull, JTrue, JFalse, JStr("")},
        us \in {Absent, JStr(""), JStr("note")},
        ud \in {Absent, JStr(""), JDate(3)}}

\* replies whose text holds a JSON object, bare or fenced
ObjectTexts ==
    {<<"OBJ">>,
     <<" ", "OBJ", "\n">>,
     Fence \o <<"j", "\n", "OBJ", "\n">> \o Fence,
     Fence \o <<"\n", "OBJ", "\n">> \o Fence,
     Fence \o <<"OBJ">> \o Fence,
     Fence \o <<"OBJ", "\n">> \o Fence,
     <<"OBJ", " ", "x">>}

\* replies whose text holds a JSON array, or no JSON
OtherTexts ==
    {<<"ARR">>,
     Fence \o <<"j", "\n", "ARR", "\n">> \o Fence,
     <<"x">>,
     Fence \o <<"\n", "x", "\n">> \o Fence,
     <<>>}

Week == 1..7

\* the inputs of two overlapping requests for job J1
RaceStage(r) == IF r = "r1" THEN JStr("in progress") ELSE JStr("on hold")
RaceNote(r) == IF r = "r1" THEN JStr("note one") ELSE JStr("note two")
RaceFlag(r) == IF r = "r1" THEN JTrue ELSE JFalse

RaceStatus(r) == IF r = "r1" THEN JStr("live") ELSE JStr("done")

RaceDocs(r) ==
    {MkDict(("stage" :> st) @@ ("status" :> su) @@ ("withClient" :> wc) @@
            ("updateSummary" :> us) @@ ("updateDue" :> JDate(3))) :
        st \in {Absent, RaceStage(r)},
        su \in {Absent, RaceStatus(r)},
        wc \in {Absent, RaceFlag(r)},
        us \in {Absent, RaceNote(r)}}

RaceBody ==
    [isdict |-> TRUE,
     data |-> ("emailContent" :> JStr("email")) @@ ("jobNumber" :> JStr("J1"))]

\* ---------------------------------------------------------- specifications
IdleStrip == reply_text = <<>> /\ stripped = <<>> /\ strip_pc = "idle"

IdleDays == today = 0 /\ current = 0 /\ added = 0 /\ days_pc = "idle"

IdleHandler ==
    /\ AIRTABLE_API_KEY = TRUE
    /\ record = InitialRecord
    /\ patchLog = <<>>
    /\ req = [r \in Requests |-> NewRequest]

Init ==
    /\ AIRTABLE_API_KEY \in BOOLEAN
    /\ record = InitialRecord
    /\ patchLog = <<>>
    /\ req = [r \in Requests |-> NewRequest]
    /\ IdleStrip
    /\ IdleDays

\* one request, every input
Next ==
    \E r \in {"r1"} :
        \/ Receive(r, Bodies)
        \/ Fetch(r, FetchOutcomes)
        \/ InvokeModel(r, BOOLEAN, ObjectTexts, Docs, Week)
        \/ InvokeModel(r, {TRUE}, OtherTexts, {EmptyDict}, Week)
        \/ Patch(r, PatchOutcomes)

Spec == Init /\ [][Next]_vars

\* the steps of one of two overlapping requests for the same job number
RaceStep(r) ==
    \/ Receive(r, {RaceBody})
    \/ Fetch(r, {"ok", "network_error"})
    \/ InvokeModel(r, {TRUE}, {<<"OBJ">>}, RaceDocs(r), {1})
    \/ Patch(r, {"ok", "http_error"})

NextRace == \E r \in Requests : RaceStep(r)

SpecRace == Init /\ [][NextRace]_vars

\* strip_markdown_json applied to every text of at most MaxLen characters
Alphabet == {Backtick, "\n", " ", "j", "{"}

Texts == UNION {[1..n -> Alphabet] : n \in 0..MaxLen}

InitStrip ==
    /\ IdleHandler
    /\ IdleDays
    /\ reply_text \in Texts
    /\ stripped = <<>>
    /\ strip_pc = "call"

StripCall ==
    /\ strip_pc = "call"
    /\ stripped' = strip_markdown_json(reply_text)
    /\ strip_pc' = "returned"
    /\ UNCHANGED <<reply_text, handlerVars, daysVars>>

NextStrip == StripCall

SpecStrip == InitStrip /\ [][NextStrip]_vars

\* get_working_days_from_today(5), one iteration of its loop per step
InitDays ==
    /\ IdleHandler
    /\ IdleStrip
    /\ today \in 1..MaxToday
    /\ current = today
    /\ added = 0
    /\ days_pc = "loop"

LoopStep ==
    /\ days_pc = "loop"
    /\ added < Days
    /\ current' = current + 1
    /\ added' = IF IsWorkingDay(current + 1) THEN added + 1 ELSE added
    /\ UNCHANGED <<today, days_pc, handlerVars, stripVars>>

LoopReturn ==
    /\ days_pc = "loop"
    /\ ~(added < Days)
    /\ days_pc' = "returned"
    /\ UNCHANGED <<today, current, added, handlerVars, stripVars>>

NextDays == LoopStep \/ LoopReturn

\* the loop runs in one thread that is never suspended for ever
SpecDays == InitDays /\ [][NextDays]_vars /\ WF_vars(NextDays)

\* ------------------------------------------------------------------ claims
Started(r) == req[r].pc # "idle"

Done(r) == req[r].pc = "done"

\* the body misses field k: no object, no such key, no string, or empty
Missing(r, k) ==
    \/ ~req[r].isdict
    \/ k \notin DOMAIN req[r].data
    \/ req[r].data[k].t # "str"
    \/ req[r].data[k].v = ""

\* C1: every request that misses emailContent or jobNumber (absent, empty,
\* not a non-empty string, or a body with no such field at all) is answered
\* 400 with an error text that names a missing field.
C1_MissingFieldIs400 ==
    \A r \in Requests :
        (Started(r) /\ (Missing(r, "emailContent") \/ Missing(r, "jobNumber")))
        => /\ Done(r)
           /\ req[r].response.status = 400
           /\ \/ Missing(r, "emailContent")
                 /\ req[r].response.error = "No email content provided"
              \/ Missing(r, "jobNumber")
                 /\ req[r].response.error = "No job number provided"

\* the lookup of request r has run and is one of the not-found cases
NotFoundCase(r) ==
    /\ req[r].lookup # "none"
    /\ \/ req[r].lookup \in {"no_credential", "network_error", "http_error"}
       \/ req[r].data["jobNumber"] # JStr("J1")

\* C2: a validated request whose lookup yields not-found (zero matching
\* records, missing credential, network error, non-2xx response) is answered
\* 404 with the requested job number in the body.
C2_NotFoundIs404 ==
    \A r \in Requests :
        NotFoundCase(r)
        => /\ Done(r)
           /\ req[r].response.status = 404
           /\ "jobNumber" \in req[r].response.keys
           /\ req[r].response.jobNumber = req[r].data["jobNumber"]

C2_Witness ==
    \E r \in Requests :
        /\ Done(r)
        /\ req[r].lookup = "ok"
        /\ req[r].data["jobNumber"] = JStr("J9")
        /\ req[r].response.status = 404
        /\ req[r].response.jobNumber = JStr("J9")

\* the payload of request r has been built
Built(r) == req[r].pc = "computed" \/ (Done(r) /\ req[r].response.status = 200)

\* extraction field k is present and non-empty
NonEmpty(r, k) ==
    /\ k \in DOMAIN req[r].analysis
    /\ req[r].analysis[k] \notin {JNull, JStr("")}

\* the record field f is as it was before the request
Kept(f) == Get(record, f, Absent) = Get(InitialRecord, f, Absent)

\* C3, as stated: a record field is in the payload only if its own
\* extraction field (stage, status, withClient, updateSummary, updateDue) is
\* present and non-empty, so a field whose extraction field was absent keeps
\* its previous value.
C3_OwnFieldGatesPayload ==
    \A r \in Requests :
        Built(r)
        => \A p \in {<<"Stage", "stage">>, <<"Status", "status">>,
                     <<"With Client?", "withClient">>,
                     <<"Update", "updateSummary">>, <<"Update due", "updateDue">>} :
               /\ p[1] \in DOMAIN req[r].airtable_updates => NonEmpty(r, p[2])
               /\ (Done(r) /\ p[2] \notin DOMAIN req[r].analysis) => Kept(p[1])

\* C3, amended: Stage is in the payload only if stage is present and
\* non-empty, Status and Status Changed only if status is, Update and Update
\* due only if updateSummary is (whatever updateDue is), With Client? only if
\* withClient is present and not null; after the request every record field
\* whose gating extraction field was absent keeps its previous value.
C3_GatingFieldGatesPayload ==
    \A r \in Requests :
        Built(r)
        => /\ \A p \in {<<"Stage", "stage">>, <<"Status", "status">>,
                        <<"Status Changed", "status">>,
                        <<"Update", "updateSummary">>,
                        <<"Update due", "updateSummary">>} :
                  /\ p[1] \in DOMAIN req[r].airtable_updates => NonEmpty(r, p[2])
                  /\ (Done(r) /\ p[2] \notin DOMAIN req[r].analysis) => Kept(p[1])
           /\ "With Client?" \in DOMAIN req[r].airtable_updates
                  => /\ "withClient" \in DOMAIN req[r].analysis
                     /\ req[r].analysis["withClient"] # JNull
           /\ (Done(r) /\ "withClient" \notin DOMAIN req[r].analysis)
                  => Kept("With Client?")
           /\ Done(r) => Kept("Project Name")

C3_Witness ==
    \E r \in Requests :
        /\ Done(r)
        /\ patchLog = <<r>>
        /\ DOMAIN req[r].analysis = {"updateSummary"}
        /\ DOMAIN req[r].airtable_updates = {"Update", "Update due"}
        /\ record["Update"] = JStr("note")
        /\ record["Update due"] # InitialRecord["Update due"]
        /\ Kept("Stage") /\ Kept("Status") /\ Kept("With Client?")

\* C4: a reply whose fence-stripped text is not a single JSON object (no
\* JSON, or JSON that is no object) ends the request with a 500 response
\* whose body holds the fence-stripped text.
C4_NotAnObjectIs500WithRawText ==
    \A r \in Requests :
        (req[r].replied /\ strip_markdown_json(req[r].reply) # <<"OBJ">>)
        => /\ Done(r)
           /\ req[r].response.status = 500
           /\ "raw_response" \in req[r].response.keys
           /\ req[r].response.raw_response = strip_markdown_json(req[r].reply)

\* C5: a failed patch call does not fail the request: the response is 200
\* with airtableUpdated = false, and exactly one PATCH was issued.
C5_FailedPatchIs200 ==
    \A r \in Requests :
        (Done(r) /\ req[r].patch_outcome \in {"network_error", "http_error"})
        => /\ req[r].response.status = 200
           /\ req[r].response.airtableUpdated = FALSE
           /\ req[r].patch_calls = 1
           /\ \A i \in 1..Len(patchLog) : patchLog[i] # r
           /\ \A o \in PatchOutcomes :
                  /\ ~update_project_in_airtable(FALSE, RecordId, o).success
                  /\ ~update_project_in_airtable(TRUE, "", o).success

C5_Witness ==
    \E r \in Requests :
        /\ Done(r)
        /\ req[r].patch_outcome = "http_error"
        /\ req[r].response.status = 200
        /\ req[r].response.airtableUpdated = FALSE
        /\ req[r].patch_calls = 1
        /\ record = InitialRecord

\* the store applied the patch of request r
Patched(r) == \E i \in 1..Len(patchLog) : patchLog[i] = r

\* C6: in every 200 response fieldsUpdated is exactly the set of fields
\* written to the record: nothing is listed when no patch was issued or the
\* patch failed.
C6_FieldsUpdatedWerePatched ==
    \A r \in Requests :
        (Done(r) /\ req[r].response.status = 200)
        => req[r].response.fieldsUpdated =
               (IF Patched(r) THEN DOMAIN req[r].airtable_updates ELSE {})

\* stage, status and updateSummary absent or empty, withClient absent
EmptyDerived(r) ==
    /\ \A k \in {"stage", "status", "updateSummary"} :
           Get(req[r].analysis, k, JNull) \in {JNull, JStr("")}
    /\ Get(req[r].analysis, "withClient", JNull) = JNull

\* C7: when the derived update set is empty no PATCH is issued, and the 200
\* response has airtableUpdated = false and an empty fieldsUpdated.
C7_EmptyUpdateSetNoPatch ==
    \A r \in Requests :
        (Built(r) /\ EmptyDerived(r))
        => /\ DOMAIN req[r].airtable_updates = {}
           /\ Done(r) => /\ req[r].patch_calls = 0
                         /\ ~Patched(r)
                         /\ record = InitialRecord
                         /\ req[r].response.status = 200
                         /\ req[r].response.airtableUpdated = FALSE
                         /\ req[r].response.fieldsUpdated = {}

C7_Witness ==
    \E r \in Requests :
        /\ Done(r)
        /\ req[r].response.status = 200
        /\ EmptyDerived(r)
        /\ Get(req[r].analysis, "updateDue", JNull) = JDate(3)
        /\ Get(req[r].analysis, "stage", JNull) = JStr("")
        /\ req[r].response.fieldsUpdated = {}
        /\ req[r].patch_calls = 0

\* the trimmed text starts and ends with a fence, around text with no backtick
Wrapped(t) ==
    /\ Len(t) >= 2 * Len(Fence)
    /\ StartsWith(t, Fence)
    /\ EndsWith(t, Fence)
    /\ \A i \in 4..(Len(t) - 3) : t[i] # Backtick

\* what lies between the opening fence (with its language tag: the letters
\* that a newline ends) and the closing fence
BetweenFences(t) ==
    LET inner == SubSeq(t, 4, Len(t) - 3)
        letters == CHOOSE k \in 0..Len(inner) :
                       /\ \A i \in 1..k : inner[i] = "j"
                       /\ k < Len(inner) => inner[k + 1] # "j"
        tagged == letters < Len(inner) /\ inner[letters + 1] = "\n"
    IN IF tagged THEN SubSeq(inner, letters + 1, Len(inner)) ELSE inner

Unfenced(t) == ~StartsWith(t, Fence) /\ ~EndsWith(t, Fence)

\* C8: for a reply wrapped in a leading and a trailing fence, with or without
\* a language tag and whether or not a newline follows the opening fence,
\* strip_markdown_json returns the text between the fences, trimmed; for an
\* unfenced reply it returns the reply trimmed.
C8_FenceStripped ==
    strip_pc = "returned"
    => LET t == Strip(reply_text)
       IN /\ Wrapped(t) => stripped = Strip(BetweenFences(t))
          /\ Unfenced(t) => stripped = t

\* C9: the loop ends, and the date it returns is a weekday with exactly 5
\* weekdays after today up to and including it; it is the due date the
\* handler writes when updateSummary is set and updateDue is not.
C9_DueIsFifthBusinessDay ==
    /\ <>(days_pc = "returned")
    /\ [](days_pc = "returned"
          => /\ Weekday(current) \in 0..4
             /\ Cardinality({d \in (today + 1)..current : Weekday(d) \in 0..4}) = 5
             /\ get_working_days_from_today(today, Days) = current
             /\ LET analysis == "updateSummary" :> JStr("note")
                IN BuildUpdates(analysis, UpdateDue(analysis, today))["Update due"]
                       = JDate(current))

C9_Witness ==
    /\ days_pc = "returned"
    /\ Weekday(today) = 5
    /\ current = today + 6
    /\ Weekday(current) = 4

\* the last request in the patch log whose payload holds field f, if any
Writers(f) == {i \in 1..Len(patchLog) : f \in DOMAIN req[patchLog[i]].airtable_updates}

LastWriter(f) == patchLog[CHOOSE i \in Writers(f) : \A j \in Writers(f) : j <= i]

\* C10: two overlapping requests for one job number are not coordinated:
\* neither ever waits for the other nor fails because of it, and every
\* record field holds the value of the last applied patch that wrote it (the
\* later of the two when both wrote it, the only one otherwise).
C10_LastPatchWins ==
    /\ \A r \in Requests : ~Done(r) => ENABLED RaceStep(r)
    /\ \A r \in Requests :
           (Done(r) /\ req[r].lookup = "ok")
           => /\ req[r].response.status = 200
              /\ req[r].response.airtableUpdated = Patched(r)
    /\ \A f \in FieldNames :
           IF Writers(f) = {} THEN Kept(f)
           ELSE record[f] = req[LastWriter(f)].airtable_updates[f]

C10_Witness ==
    /\ patchLog = <<"r2", "r1">>
    /\ \A r \in Requests : Done(r)
    /\ DOMAIN req["r1"].airtable_updates = {"Stage"}
    /\ DOMAIN req["r2"].airtable_updates = {"Stage", "Update", "Update due"}
    /\ record["Stage"] = JStr("In Progress")
    /\ record["Update"] = JStr("note two")
    /\ req["r1"].current_data = InitialRecord
    /\ req["r2"].current_data = InitialRecord

====
